---- MODULE Spec2Model ----
(***************************************************************************)
(* Model of bindings/rust/lib.rs: the Rust binding of the tree-sitter      *)
(* notebook grammar.  The binding is one accessor, language(), that makes   *)
(* a foreign call to tree_sitter_notebook() and returns its result, and     *)
(* four text constants embedded with include_str!.  Callers are threads     *)
(* that call language(), read the constants, create a parser and configure  *)
(* it with the handle (the documented example).                             *)
(***************************************************************************)
EXTENDS Integers, Sequences, FiniteSets, TLC

\* ---- bounds of the model ----
NumThreads == 2
VersionSpread == 1

\* ---- values of the program ----
\* tree_sitter::LANGUAGE_VERSION, the ABI version the runtime expects
LANGUAGE_VERSION == 14
\* the null pointer
NULL == 0
\* address of the static TSLanguage the native grammar library holds
GrammarAddr == 1

Threads == 1..NumThreads

\* ABI versions a separately built grammar artifact may carry
GrammarVersions == (LANGUAGE_VERSION - VersionSpread)..(LANGUAGE_VERSION + VersionSpread)

\* Option<T>: None is the empty sequence, Some(x) a one-element sequence
None == <<>>

Some(x) == <<x>>

\* ---- the four embedded constants (values name the included file) ----
NODE_TYPES == "src/node-types.json"

HIGHLIGHTS_QUERY == "queries/highlights.scm"

INJECTIONS_QUERY == "queries/injections.scm"

TEXTOBJECTS_QUERY == "queries/textobjects.scm"

AssetNames == {"NODE_TYPES", "HIGHLIGHTS_QUERY", "INJECTIONS_QUERY", "TEXTOBJECTS_QUERY"}

Assets ==
    [n \in AssetNames |->
        CASE n = "NODE_TYPES" -> NODE_TYPES
          [] n = "HIGHLIGHTS_QUERY" -> HIGHLIGHTS_QUERY
          [] n = "INJECTIONS_QUERY" -> INJECTIONS_QUERY
          [] n = "TEXTOBJECTS_QUERY" -> TEXTOBJECTS_QUERY]

VARIABLES
    nativeStatic,   \* static data of the native grammar library: address -> descriptor
    rodata,         \* the binding's read-only data: constant name -> text
    pc,             \* per thread: "ready", or "in_language" inside a language() call
    ret,            \* per thread: value language() is about to return
    ffi,            \* per thread: foreign calls made since its latest language() call began
    handle,         \* per thread: the caller's `language` local (Option<Language>)
    parser,         \* per thread: the caller's parser (Option<Parser>), a parser is its language
    result,         \* per thread: outcome of the latest set_language
    read,           \* per thread: text obtained by the latest constant read
    returned        \* every handle any language() call has returned so far

vars == <<nativeStatic, rodata, pc, ret, ffi, handle, parser, result, read, returned>>

\* ---- results of Parser::set_language ----
Ok == [tag |-> "Ok"]

Err(expected, actual) == [tag |-> "Err", expected |-> expected, actual |-> actual]

Crash == [tag |-> "Crash"]

\* ---- the native entry point: returns the address of its static descriptor ----
tree_sitter_notebook == GrammarAddr

\* Language::version(): reads the version field behind the pointer.  Reading
\* through a pointer that addresses no descriptor is undefined: any value.
Language_version(h) ==
    IF h \in DOMAIN nativeStatic
    THEN {nativeStatic[h].version}
    ELSE GrammarVersions

\* ---- initial states ----
InitCallers ==
    /\ rodata = Assets
    /\ pc = [t \in Threads |-> "ready"]
    /\ ret = [t \in Threads |-> None]
    /\ ffi = [t \in Threads |-> 0]
    /\ handle = [t \in Threads |-> None]
    /\ parser = [t \in Threads |-> None]
    /\ result = [t \in Threads |-> None]
    /\ read = [t \in Threads |-> None]
    /\ returned = {}

\* the grammar the crate ships: its version is the runtime's (test_can_load_grammar)
Init ==
    /\ nativeStatic = [a \in {GrammarAddr} |-> [version |-> LANGUAGE_VERSION]]
    /\ InitCallers

\* a grammar artifact built separately, of any ABI version
InitAnyGrammar ==
    /\ \E v \in GrammarVersions :
          nativeStatic = [a \in {GrammarAddr} |-> [version |-> v]]
    /\ InitCallers

\* ---- faulty variants of language(), used to test the properties below ----
\* returns a null handle
language_null(t) ==
    /\ pc[t] = "ready"
    /\ pc' = [pc EXCEPT ![t] = "in_language"]
    /\ ffi' = [ffi EXCEPT ![t] = 1]
    /\ ret' = [ret EXCEPT ![t] = Some(NULL)]
    /\ UNCHANGED <<nativeStatic, rodata, handle, parser, result, read, returned>>

\* binds another grammar's symbol: the address of no notebook descriptor
language_wrong_symbol(t) ==
    /\ pc[t] = "ready"
    /\ pc' = [pc EXCEPT ![t] = "in_language"]
    /\ ffi' = [ffi EXCEPT ![t] = 1]
    /\ ret' = [ret EXCEPT ![t] = Some(tree_sitter_notebook + 1)]
    /\ UNCHANGED <<nativeStatic, rodata, handle, parser, result, read, returned>>

\* returns a handle it never initialised: any pointer value
language_uninit(t) ==
    /\ pc[t] = "ready"
    /\ pc' = [pc EXCEPT ![t] = "in_language"]
    /\ ffi' = [ffi EXCEPT ![t] = 1]
    /\ \E a \in {NULL, tree_sitter_notebook, tree_sitter_notebook + 1} :
          ret' = [ret EXCEPT ![t] = Some(a)]
    /\ UNCHANGED <<nativeStatic, rodata, handle, parser, result, read, returned>>

\* checks the version itself and panics inside the accessor on a mismatch
language_checked(t) ==
    /\ pc[t] = "ready"
    /\ ffi' = [ffi EXCEPT ![t] = 1]
    /\ IF nativeStatic[tree_sitter_notebook].version = LANGUAGE_VERSION
       THEN /\ pc' = [pc EXCEPT ![t] = "in_language"]
            /\ ret' = [ret EXCEPT ![t] = Some(tree_sitter_notebook)]
       ELSE /\ pc' = [pc EXCEPT ![t] = "panicked"]
            /\ ret' = ret
    /\ UNCHANGED <<nativeStatic, rodata, handle, parser, result, read, returned>>

\* hands out a new copy of the descriptor on every call after the first
language_realloc(t) ==
    /\ pc[t] = "ready"
    /\ pc' = [pc EXCEPT ![t] = "in_language"]
    /\ ffi' = [ffi EXCEPT ![t] = 1]
    /\ ret' = [ret EXCEPT ![t] =
                 IF handle[t] = None THEN Some(tree_sitter_notebook)
                                     ELSE Some(tree_sitter_notebook + 1)]
    /\ UNCHANGED <<nativeStatic, rodata, handle, parser, result, read, returned>>

\* serialises callers on a global lock held for the length of the call
language_locked(t) ==
    /\ pc[t] = "ready"
    /\ \A u \in Threads \ {t} : pc[u] = "ready"
    /\ pc' = [pc EXCEPT ![t] = "in_language"]
    /\ ffi' = [ffi EXCEPT ![t] = 1]
    /\ ret' = [ret EXCEPT ![t] = Some(tree_sitter_notebook)]
    /\ UNCHANGED <<nativeStatic, rodata, handle, parser, result, read, returned>>

\* patches the descriptor's version field on the way out
language_patches_version(t) ==
    /\ pc[t] = "ready"
    /\ pc' = [pc EXCEPT ![t] = "in_language"]
    /\ ffi' = [ffi EXCEPT ![t] = 1]
    /\ ret' = [ret EXCEPT ![t] = Some(tree_sitter_notebook)]
    /\ nativeStatic' = [nativeStatic EXCEPT
                          ![tree_sitter_notebook].version = LANGUAGE_VERSION]
    /\ UNCHANGED <<rodata, handle, parser, result, read, returned>>

\* on a version mismatch substitutes another descriptor
language_fallback(t) ==
    /\ pc[t] = "ready"
    /\ pc' = [pc EXCEPT ![t] = "in_language"]
    /\ ffi' = [ffi EXCEPT ![t] = 1]
    /\ ret' = [ret EXCEPT ![t] =
                 IF nativeStatic[tree_sitter_notebook].version = LANGUAGE_VERSION
                 THEN Some(tree_sitter_notebook)
                 ELSE Some(tree_sitter_notebook + 1)]
    /\ UNCHANGED <<nativeStatic, rodata, handle, parser, result, read, returned>>

\* makes the foreign call twice
language_twice(t) ==
    /\ pc[t] = "ready"
    /\ pc' = [pc EXCEPT ![t] = "in_language"]
    /\ ffi' = [ffi EXCEPT ![t] = 2]
    /\ ret' = [ret EXCEPT ![t] = Some(tree_sitter_notebook)]
    /\ UNCHANGED <<nativeStatic, rodata, handle, parser, result, read, returned>>

\* ---- language(): pub fn language() -> Language { unsafe { tree_sitter_notebook() } } ----
\* the call: one zero-argument foreign call, whose result is the value to return
language(t) ==
    /\ pc[t] = "ready"
    /\ pc' = [pc EXCEPT ![t] = "in_language"]
    /\ ffi' = [ffi EXCEPT ![t] = 1]
    /\ ret' = [ret EXCEPT ![t] = Some(tree_sitter_notebook)]
    /\ UNCHANGED <<nativeStatic, rodata, handle, parser, result, read, returned>>

\* the return: the caller binds the value (let language = language();)
language_return(t) ==
    /\ pc[t] = "in_language"
    /\ pc' = [pc EXCEPT ![t] = "ready"]
    /\ handle' = [handle EXCEPT ![t] = ret[t]]
    /\ ret' = [ret EXCEPT ![t] = None]
    /\ returned' = returned \cup {ret[t][1]}
    /\ UNCHANGED <<nativeStatic, rodata, ffi, parser, result, read>>

\* faulty variant of a constant read: moves the text out, leaving it empty
read_const_take(t, n) ==
    /\ pc[t] = "ready"
    /\ read' = [read EXCEPT ![t] = Some(rodata[n])]
    /\ rodata' = [rodata EXCEPT ![n] = ""]
    /\ UNCHANGED <<nativeStatic, pc, ret, ffi, handle, parser, result, returned>>

\* ---- reading one of the four constants ----
read_const(t, n) ==
    /\ pc[t] = "ready"
    /\ read' = [read EXCEPT ![t] = Some(rodata[n])]
    /\ UNCHANGED <<nativeStatic, rodata, pc, ret, ffi, handle, parser, result, returned>>

\* ---- the documented example: Parser::new() ----
Parser_new(t) ==
    /\ pc[t] = "ready"
    /\ parser' = [parser EXCEPT ![t] = Some(None)]
    /\ UNCHANGED <<nativeStatic, rodata, pc, ret, ffi, handle, result, read, returned>>

\* ---- the documented example: parser.set_language(language) ----
set_language(t) ==
    /\ pc[t] = "ready"
    /\ handle[t] # None
    /\ parser[t] # None
    /\ LET h == handle[t][1] IN
       \/ \E v \in Language_version(h) :
             IF v = LANGUAGE_VERSION
             THEN /\ parser' = [parser EXCEPT ![t] = Some(Some(h))]
                  /\ result' = [result EXCEPT ![t] = Ok]
             ELSE /\ parser' = parser
                  /\ result' = [result EXCEPT ![t] = Err(LANGUAGE_VERSION, v)]
       \/ /\ h \notin DOMAIN nativeStatic
          /\ parser' = parser
          /\ result' = [result EXCEPT ![t] = Crash]
    /\ UNCHANGED <<nativeStatic, rodata, pc, ret, ffi, handle, read, returned>>

Next ==
    \E t \in Threads :
        \/ language(t)
        \/ language_return(t)
        \/ \E n \in AssetNames : read_const(t, n)
        \/ Parser_new(t)
        \/ set_language(t)

Spec == Init /\ [][Next]_vars

SpecAnyGrammar == InitAnyGrammar /\ [][Next]_vars

\* the grammar artifact's version differs from the one the runtime expects
Mismatch == nativeStatic[tree_sitter_notebook].version # LANGUAGE_VERSION

\* C1: every language() call, whatever came before it, completes and hands
\* back a non-null handle that addresses a live descriptor; the accessor has
\* no failure outcome.
LanguageAlwaysValid ==
    \A t \in Threads :
        /\ pc[t] \in {"ready", "in_language"}
        /\ pc[t] = "in_language" =>
              /\ ret[t] # None
              /\ ret[t][1] # NULL
              /\ ret[t][1] \in DOMAIN nativeStatic
              /\ ENABLED language_return(t)
        /\ handle[t] # None =>
              /\ handle[t][1] # NULL
              /\ handle[t][1] \in DOMAIN nativeStatic

\* a thread holds a handle from an earlier call and is inside a later one
LanguageAlwaysValidWitness ==
    \E t \in Threads :
        /\ handle[t] # None
        /\ handle[t][1] # NULL
        /\ pc[t] = "in_language"
        /\ result[t] # None

MismatchReportedAtConfiguration ==
    Mismatch =>
        \A t \in Threads :
            /\ pc[t] \in {"ready", "in_language"}
            /\ pc[t] = "in_language" => ENABLED language_return(t)
            /\ result[t] # None =>
                  /\ handle[t] # None
                  /\ result[t] = Err(LANGUAGE_VERSION,
                                     nativeStatic[tree_sitter_notebook].version)
            /\ (pc[t] = "ready" /\ handle[t] # None /\ parser[t] # None) =>
                  ENABLED set_language(t)

\* mismatch: a thread got its handle and then the Err from set_language
MismatchReportedAtConfigurationWitness ==
    /\ Mismatch
    /\ \E t \in Threads :
          /\ handle[t] = Some(tree_sitter_notebook)
          /\ result[t] # None
          /\ result[t].tag = "Err"
          /\ result[t].actual # result[t].expected

\* C5: any two language() calls, by one thread or several, with any other
\* operations between them, return the same handle, whose version reads the
\* same.
LanguageDeterministic ==
    /\ Cardinality(returned) <= 1
    /\ \A h1 \in returned, h2 \in returned :
          Language_version(h1) = Language_version(h2)
    /\ \A t \in Threads, u \in Threads :
          /\ (handle[t] # None /\ handle[u] # None) => handle[t] = handle[u]
          /\ (handle[t] # None /\ ret[u] # None) => handle[t] = ret[u]
          /\ (ret[t] # None /\ ret[u] # None) => ret[t] = ret[u]

\* a thread's second call is about to return what its first returned, after
\* a constant read in between, while another thread holds a handle too
LanguageDeterministicWitness ==
    \E t \in Threads, u \in Threads :
        /\ t # u
        /\ handle[t] # None
        /\ read[t] # None
        /\ ret[t] = handle[t]
        /\ handle[u] = handle[t]

\* C6: threads call language() and read the constants without coordination:
\* a call never waits on another thread, returns what it returns when run
\* alone, and no step writes the shared data.
ConcurrentCallsIndependent ==
    /\ [](\A t \in Threads :
            /\ pc[t] = "ready" =>
                  /\ ENABLED language(t)
                  /\ \A n \in AssetNames : ENABLED read_const(t, n)
            /\ pc[t] = "in_language" =>
                  /\ ret[t] = Some(tree_sitter_notebook)
                  /\ ENABLED language_return(t))
    /\ [][nativeStatic' = nativeStatic /\ rodata' = rodata]_vars

\* every thread is inside language() at once
ConcurrentCallsIndependentWitness ==
    /\ \A t \in Threads : pc[t] = "in_language"
    /\ \E t \in Threads : read[t] # None

\* C7: the four constants hold their initial text in every state, and every
\* read yields that text.
ConstantsNeverChange ==
    /\ rodata = Assets
    /\ DOMAIN rodata = AssetNames
    /\ \A t \in Threads :
          read[t] # None => \E n \in AssetNames : read[t] = Some(Assets[n])

\* constants were read after language() calls, and still hold their text
ConstantsNeverChangeWitness ==
    /\ \E t \in Threads : read[t] = Some(NODE_TYPES) /\ handle[t] # None
    /\ \E t \in Threads : read[t] = Some(TEXTOBJECTS_QUERY)
    /\ rodata["NODE_TYPES"] = NODE_TYPES

\* C8: a step of language() (its call or its return) leaves the constants,
\* the grammar descriptor, every parser, every set_language result and every
\* other thread's locals as they were.
LanguageHasNoSideEffect ==
    [][\A t \in Threads :
          pc'[t] # pc[t] =>
              /\ UNCHANGED <<nativeStatic, rodata, parser, result, read>>
              /\ \A u \in Threads \ {t} :
                    /\ handle'[u] = handle[u]
                    /\ ret'[u] = ret[u]
                    /\ pc'[u] = pc[u]
                    /\ ffi'[u] = ffi[u]]_vars

\* language() was called by a thread that had configured its parser
LanguageHasNoSideEffectWitness ==
    \E t \in Threads :
        /\ parser[t] = Some(Some(tree_sitter_notebook))
        /\ result[t] = Ok
        /\ pc[t] = "in_language"

\* C9: under a version mismatch a set_language step only reports: the handle
\* passed is the native descriptor, no language() call or foreign call is
\* made, the result is the Err, and every parser keeps the language it had.
MismatchOnlyReported ==
    [][Mismatch =>
          \A t \in Threads :
              result'[t] # result[t] =>
                  /\ handle[t] = Some(tree_sitter_notebook)
                  /\ result'[t].tag = "Err"
                  /\ parser' = parser
                  /\ UNCHANGED <<handle, pc, ret, ffi, nativeStatic, returned>>]_vars

\* mismatch: set_language failed and the parser is still without a language
MismatchOnlyReportedWitness ==
    /\ Mismatch
    /\ \E t \in Threads :
          /\ result[t] # None
          /\ result[t].tag = "Err"
          /\ parser[t] = Some(None)
          /\ ffi[t] = 1

\* C10: each language() call makes exactly one foreign call and returns its
\* result as it is; no other step, a constant read among them, makes one.
ForeignCallOncePerLanguage ==
    /\ [](\A t \in Threads :
            /\ pc[t] = "in_language" =>
                  /\ ffi[t] = 1
                  /\ ret[t] = Some(tree_sitter_notebook)
            /\ handle[t] # None =>
                  /\ ffi[t] = 1
                  /\ handle[t] = Some(tree_sitter_notebook)
            /\ (pc[t] = "ready" /\ handle[t] = None) => ffi[t] = 0)
    /\ [][\A t \in Threads :
            ffi'[t] # ffi[t] => (pc[t] = "ready" /\ pc'[t] = "in_language")]_vars

\* one thread called language() once; another only read constants
ForeignCallOncePerLanguageWitness ==
    \E t \in Threads, u \in Threads :
        /\ handle[t] # None
        /\ ffi[t] = 1
        /\ read[u] # None
        /\ ffi[u] = 0

====
